---- MODULE Spec2Model ----
(***************************************************************************)
(* Model of the network monitor: the Measurement Engine                    *)
(* (NetworkuptimeMonitor.py: ping_test, log_status, LogManager, main) and  *)
(* the Log Analysis Engine (LogReader.py: parse_log, chunk_data,           *)
(* filter_segments, generate_prompt, plot_histograms, run_all).            *)
(*                                                                         *)
(* Four specifications share the module:                                   *)
(*   Spec / FairSpec  the measurement loop main() with its two LogManagers *)
(*   ProbeSpec        ping_test -> log_status -> parse_log ->              *)
(*                    generate_prompt on one cycle                         *)
(*   ReaderSpec       LogReader.__init__ and run_all on a log file         *)
(*                                                                         *)
(* Conventions.  Python None is the integer None (-1); every number the    *)
(* program formats with one decimal (:.1f) is carried in tenths; times are *)
(* whole seconds (clock, timestamps) or whole milliseconds (round trips).  *)
(***************************************************************************)
EXTENDS Integers, Sequences, FiniteSets, TLC

VARIABLES
    \* ---- measurement loop (NetworkuptimeMonitor.main) ----
    pc,               \* position of main()
    duration_minutes, \* get_test_duration(): None or a number of minutes
    clock,            \* time.time() - start_time, in seconds
    fs,               \* the files of each writer: fs[w][g], g = 0 the active
                      \* file <filename>, g >= 1 the file <filename>.<g>
    handle,           \* LogManager.file of each writer: unopened/open/closed
    COUNT,            \* configured attempt count
    result,           \* <<the PingResult of the current cycle>>, <<>> when none
    entry,            \* <<the entry log_status formatted>>, <<>> when none
    cycle,            \* number of probe cycles started
    written,          \* history: the cycles whose entry each writer wrote
    last_write,       \* history: <<>> or <<the last LogManager.write>>: its
                      \* writer, the size it found and whether it rotated
    exc,              \* exception propagating out of main(): none/interrupt/error
    error_log,        \* number of tracebacks ping_test appended to ERROR_LOG
    start_time,       \* ping_test's start_time (line 318) of the last probe,
                      \* read on the same clock
    \* ---- one cycle end to end (ProbeSpec) ----
    ppc,              \* position of the single-cycle pipeline
    output,           \* what subprocess.run produced
    parsed,           \* LogReader.detailed_logs after parse_log of the entry
    \* ---- log analysis (LogReader) ----
    rpc,              \* position of LogReader.run_all
    log_file,         \* the lines of the file at log_file_path
    timestamps, packet_losses, avg_pings, jitters, detailed_logs,
    segments,         \* LogReader.segments
    min_seg,          \* the minimum segment length the operator typed
    prompt,           \* <<the numbers generate_prompt computed>>, <<>> before
    histograms        \* <<the values plot_histograms collected>>, <<>> before

monitorVars == <<pc, duration_minutes, clock, fs, handle, cycle, written, last_write, exc>>
cycleVars == <<COUNT, result, entry, error_log, start_time>>
probeVars == <<ppc, output, parsed>>
readerVars == <<rpc, log_file, timestamps, packet_losses, avg_pings, jitters,
                detailed_logs, segments, min_seg, prompt, histograms>>
vars == <<monitorVars, cycleVars, probeVars, readerVars>>

-----------------------------------------------------------------------------
\* Values

None == 0 - 1          \* Python None, for the Optional[int] values (which are >= 0)

\* tokens of the text between the brackets of "Ping Results: [...]":
\* a token >= 0 is the decimal text of that integer
TimeoutTok == 0 - 2    \* the text "timeout"
EmptyTok == 0 - 3      \* the empty text (what "".split(',') yields)
BadFloat == 0 - 5      \* a text of digits and dots float() rejects, "1.2.3"
JunkTok == 0 - 4       \* any other text that int() rejects

\* error texts (PingResult.error): "" is no error; ErrBracket stands for a
\* text whose last character is "]"
ErrPlain == "ping: unknown host"
ErrBracket == "ping: bad option [-W]"

\* what the probe writes to stderr: the text and the newline that ends it
StderrPlain == "ping: unknown host\n"
StderrBracket == "ping: bad option [-W]\n"

\* traceback.format_exc() of the exception subprocess.run raised: several
\* lines, each ended by a newline; TracebackText is the same without the
\* last newline
ErrTraceback == "Traceback (most recent call last):\n  File ...\nFileNotFoundError: ping\n"
TracebackText == "Traceback (most recent call last):\n  File ...\nFileNotFoundError: ping"

EndsWithBracket(e) == e = ErrBracket

\* str.strip() of an error text
Strip(e) ==
    IF e = StderrPlain THEN ErrPlain
    ELSE IF e = StderrBracket THEN ErrBracket
    ELSE IF e = ErrTraceback THEN TracebackText
    ELSE e

\* the number of newline characters in a stripped error text
NewlinesIn(e) == IF e = TracebackText THEN 2 ELSE 0

Range(s) == {s[i] : i \in 1..Len(s)}

RECURSIVE SumSeq(_)
SumSeq(s) == IF s = <<>> THEN 0 ELSE Head(s) + SumSeq(Tail(s))

RECURSIVE FilterSeq(_, _)
\* the elements of s other than x, in order
FilterSeq(s, x) ==
    IF s = <<>> THEN <<>>
    ELSE IF Head(s) = x THEN FilterSeq(Tail(s), x)
         ELSE <<Head(s)>> \o FilterSeq(Tail(s), x)

RECURSIVE Flatten(_)
Flatten(ss) == IF ss = <<>> THEN <<>> ELSE Head(ss) \o Flatten(Tail(ss))

Abs(x) == IF x < 0 THEN 0 - x ELSE x

MinOf(s) == CHOOSE x \in Range(s) : \A y \in Range(s) : x <= y
MaxOf(s) == CHOOSE x \in Range(s) : \A y \in Range(s) : x >= y

\* f"{num/den:.1f}" as a number of tenths: round to nearest, ties to even
RoundTenths(num, den) ==
    LET q == (10 * num) \div den
        r == (10 * num) % den
    IN  IF 2 * r < den THEN q
        ELSE IF 2 * r > den THEN q + 1
        ELSE IF q % 2 = 0 THEN q ELSE q + 1

-----------------------------------------------------------------------------
\* NetworkuptimeMonitor.ping_test

\* What subprocess.run produced.  spawn = FALSE: the call raised.  lines are
\* the lines of stdout that matter to the parser, each of one kind:
\*   reply         contains "Reply from" and "time=<n>ms" / "time<<n>ms"
\*   reply_notime  contains "Reply from" but no round-trip time
\*   timeout       contains "Request timed out"
\*   other         anything else
\* counts is <<>> or the <<Sent, Received, Lost>> of the summary line that
\* PACKET_COUNT_PATTERN finds; rtt is <<>> or the <<Minimum, Maximum,
\* Average>> that RTT_STATS_PATTERN finds; stderr is result.stderr.
Line(kind, time) == [kind |-> kind, time |-> time]

RECURSIVE ParseAttempts(_)
\* lines 334-344: the ping_results list
ParseAttempts(lines) ==
    IF lines = <<>> THEN <<>>
    ELSE LET l == Head(lines)
             rest == ParseAttempts(Tail(lines))
         IN  IF l.kind = "reply" THEN <<l.time>> \o rest
             ELSE IF l.kind = "reply_notime" THEN <<None>> \o rest
             ELSE IF l.kind = "timeout" THEN <<None>> \o rest
             ELSE rest

\* line 345
ValidTimes(ping_results) == FilterSeq(ping_results, None)

RECURSIVE SumAbsDiff(_)
SumAbsDiff(v) ==
    IF Len(v) < 2 THEN 0 ELSE Abs(v[2] - v[1]) + SumAbsDiff(Tail(v))

\* the sum of the differences divided by the number of samples
JitterOverCount(valid_times) ==
    IF Len(valid_times) > 1
    THEN [num |-> SumAbsDiff(valid_times), den |-> Len(valid_times)]
    ELSE [num |-> 0, den |-> 1]

\* lines 348-351, as the fraction num/den
Jitter(valid_times) ==
    IF Len(valid_times) > 1
    THEN [num |-> SumAbsDiff(valid_times), den |-> Len(valid_times) - 1]
    ELSE [num |-> 0, den |-> 1]

\* the summary line reconciled with the attempt lines: received is the
\* number of round-trip times whether or not there is a summary
PacketCountsReconciled(counts, valid_times, count) ==
    IF counts # <<>>
    THEN [sent |-> counts[1], received |-> Len(valid_times),
          lost |-> counts[1] - Len(valid_times),
          loss_percent |-> IF counts[1] # 0
                           THEN [num |-> (counts[1] - Len(valid_times)) * 100, den |-> counts[1]]
                           ELSE [num |-> 100, den |-> 1]]
    ELSE [sent |-> count, received |-> Len(valid_times),
          lost |-> count - Len(valid_times),
          loss_percent |-> [num |-> (count - Len(valid_times)) * 100, den |-> count]]

\* the received count of the summary line read as the lost count too
PacketCountsLostMisread(counts, valid_times, count) ==
    IF counts # <<>>
    THEN [sent |-> counts[1], received |-> counts[2], lost |-> counts[2],
          loss_percent |-> IF counts[1] # 0
                           THEN [num |-> counts[2] * 100, den |-> counts[1]]
                           ELSE [num |-> 100, den |-> 1]]
    ELSE [sent |-> count, received |-> Len(valid_times),
          lost |-> count - Len(valid_times),
          loss_percent |-> [num |-> (count - Len(valid_times)) * 100, den |-> count]]

\* lines 354-364: <<sent, received, lost, loss_percent>>
PacketCounts(counts, valid_times, count) ==
    IF counts # <<>>
    THEN [sent |-> counts[1], received |-> counts[2], lost |-> counts[3],
          loss_percent |-> IF counts[1] # 0
                           THEN [num |-> counts[3] * 100, den |-> counts[1]]
                           ELSE [num |-> 100, den |-> 1]]
    ELSE [sent |-> count, received |-> Len(valid_times),
          lost |-> count - Len(valid_times),
          loss_percent |-> [num |-> (count - Len(valid_times)) * 100, den |-> count]]

\* the average taken as the middle of the minimum and the maximum
RttStatsMidpoint(rtt, valid_times) ==
    IF rtt # <<>> THEN rtt
    ELSE IF valid_times # <<>>
         THEN <<MinOf(valid_times), MaxOf(valid_times),
                (MinOf(valid_times) + MaxOf(valid_times)) \div 2>>
         ELSE <<None, None, None>>

\* statistics of 0 ms when there is nothing to take them from
RttStatsZero(rtt, valid_times) ==
    IF rtt # <<>> THEN rtt
    ELSE IF valid_times # <<>>
         THEN <<MinOf(valid_times), MaxOf(valid_times),
                SumSeq(valid_times) \div Len(valid_times)>>
         ELSE <<0, 0, 0>>

\* lines 367-378: <<min_time, max_time, avg_time>>
RttStats(rtt, valid_times) ==
    IF rtt # <<>> THEN rtt
    ELSE IF valid_times # <<>>
         THEN <<MinOf(valid_times), MaxOf(valid_times),
                SumSeq(valid_times) \div Len(valid_times)>>
         ELSE <<None, None, None>>

\* connected whenever nothing was lost
ConnectedIfNoneLost(received) == received >= 0

\* line 380
Connected(received) == received > 0

\* lines 396-417: the PingResult of a cycle whose probe could not be run
PingFailureAsSuccess(count, test_duration) ==
    [connected |-> TRUE, loss_percent |-> [num |-> 0, den |-> 1],
     sent |-> count, received |-> count, lost |-> 0,
     min_time |-> None, max_time |-> None, avg_time |-> None,
     jitter |-> [num |-> 0, den |-> 1], test_duration |-> test_duration,
     ping_results |-> <<>>, error |-> ErrTraceback]

PingFailure(count, test_duration) ==
    [connected |-> FALSE, loss_percent |-> [num |-> 100, den |-> 1],
     sent |-> count, received |-> 0, lost |-> count,
     min_time |-> None, max_time |-> None, avg_time |-> None,
     jitter |-> [num |-> 0, den |-> 1], test_duration |-> test_duration,
     ping_results |-> <<>>, error |-> ErrTraceback]

\* lines 402-403: the except branch appends one traceback to ERROR_LOG
ErrorLogged(out) == IF out.spawn THEN 0 ELSE 1

\* ping_test() for one probe output, the configured COUNT and the measured
\* wall-clock duration
ping_test(out, count, test_duration) ==
    IF ~out.spawn THEN PingFailure(count, test_duration)
    ELSE LET ping_results == ParseAttempts(out.lines)
             valid_times == ValidTimes(ping_results)
             c == PacketCounts(out.counts, valid_times, count)
             t == RttStats(out.rtt, valid_times)
         IN  [connected |-> Connected(c.received),
              loss_percent |-> c.loss_percent,
              sent |-> c.sent, received |-> c.received, lost |-> c.lost,
              min_time |-> t[1], max_time |-> t[2], avg_time |-> t[3],
              jitter |-> Jitter(valid_times),
              test_duration |-> test_duration,
              ping_results |-> ping_results,
              error |-> out.stderr]

-----------------------------------------------------------------------------
\* NetworkuptimeMonitor.log_status: the text of the entry

\* lines 448: one token per attempt, "timeout" for None
ResultToken(x) == IF x # None THEN x ELSE TimeoutTok

\* The entry as the clauses of its text: status is the word before the colon,
\* loss / jitter / duration the one-decimal numbers in tenths, stats the
\* numbers of the " Min: ..ms, Max: ..ms, Avg: ..ms" clause or <<>> when the
\* clause is not written, tokens the texts joined by ", " between the
\* brackets, error the text after " | Error: " or "" when that clause is not
\* written.  test_duration is in seconds and is written in milliseconds.
FormatEntry(timestamp, r) ==
    [timestamp |-> timestamp,
     status |-> IF r.connected THEN "Connected" ELSE "Disconnected",
     loss |-> RoundTenths(r.loss_percent.num, r.loss_percent.den),
     sent |-> r.sent, received |-> r.received, lost |-> r.lost,
     stats |-> IF r.min_time # None
               THEN <<r.min_time, r.max_time, r.avg_time>> ELSE <<>>,
     jitter |-> RoundTenths(r.jitter.num, r.jitter.den),
     duration |-> r.test_duration * 10000,
     tokens |-> [i \in 1..Len(r.ping_results) |-> ResultToken(r.ping_results[i])],
     error |-> Strip(r.error)]

\* the number of newline characters in the entry: those of the error text
\* and the one line 452 appends
EntryNewlines(text) == NewlinesIn(text.error) + 1

-----------------------------------------------------------------------------
\* LogReader.LOG_PATTERN and LogReader.parse_log

\* The text LOG_PATTERN captures as ping_results, split at the commas.
\* Without an Error clause it is the text between the brackets; "".split(',')
\* is [''], one empty token.  With an Error clause the line can only match
\* when the error text ends in "]": the capture then runs on to that bracket,
\* so the last token is the last attempt followed by "] | Error: ...".
CapturedTokens(line) ==
    IF line.error = ""
    THEN IF line.tokens = <<>> THEN <<EmptyTok>> ELSE line.tokens
    ELSE IF line.tokens = <<>> THEN <<JunkTok>>
         ELSE SubSeq(line.tokens, 1, Len(line.tokens) - 1) \o <<JunkTok>>

\* line 137: nothing is left of the line after strip()
IsBlank(line) == line.status = ""

\* LOG_PATTERN.match(line) is not None; [\d.]+ also takes a text such as
\* "1.2.3" for the packet loss
Matches(line) ==
    /\ line.status = "Connected"
    /\ (line.loss >= 0 \/ line.loss = BadFloat)
    /\ line.sent >= 0 /\ line.received >= 0 /\ line.lost >= 0
    /\ line.stats # <<>>
    /\ \A i \in 1..Len(line.stats) : line.stats[i] >= 0
    /\ line.jitter >= 0 /\ line.duration >= 0
    /\ (line.error = "" \/ EndsWithBracket(line.error))

\* lines 161-169
ParseToken(token) ==
    IF token = TimeoutTok THEN None
    ELSE IF token >= 0 THEN token
    ELSE None

\* lines 144-189: the detailed_logs record of a matching line
ParseRecord(line) ==
    LET toks == CapturedTokens(line)
    IN  [timestamp |-> line.timestamp,
         packet_loss |-> line.loss,
         sent |-> line.sent, received |-> line.received, lost |-> line.lost,
         min |-> line.stats[1], max |-> line.stats[2], avg |-> line.stats[3],
         jitter |-> line.jitter, duration |-> line.duration,
         ping_results |-> [i \in 1..Len(toks) |-> ParseToken(toks[i])]]

\* lines 145-156: one of the conversions of the captured texts raises
Raises(line) == line.loss = BadFloat

RECURSIVE ParseLinesAbort(_)
\* a parse_log that stops reading at the first line whose conversion raises
ParseLinesAbort(lines) ==
    IF lines = <<>> THEN <<>>
    ELSE IF IsBlank(Head(lines)) THEN ParseLinesAbort(Tail(lines))
    ELSE IF ~Matches(Head(lines)) THEN ParseLinesAbort(Tail(lines))
    ELSE IF Raises(Head(lines)) THEN <<>>
    ELSE <<ParseRecord(Head(lines))>> \o ParseLinesAbort(Tail(lines))

RECURSIVE ParseLines(_)
\* lines 133-191: the records of the lines that are not blank, match and
\* convert, in file order
ParseLines(lines) ==
    IF lines = <<>> THEN <<>>
    ELSE IF IsBlank(Head(lines)) THEN ParseLines(Tail(lines))
    ELSE IF ~Matches(Head(lines)) THEN ParseLines(Tail(lines))
    ELSE IF Raises(Head(lines)) THEN ParseLines(Tail(lines))
    ELSE <<ParseRecord(Head(lines))>> \o ParseLines(Tail(lines))

-----------------------------------------------------------------------------
\* Bounds and inputs

MaxMinutes == 2        \* largest duration ceiling the operator enters
MaxCount == 2          \* largest configured COUNT
MaxAttempts == 3       \* most attempt lines in one probe output (ProbeSpec)
MaxGen == 2            \* backup names <filename>.1 .. <filename>.MaxGen modelled
ShortEntry == 120      \* bytes of an entry without error text

MAX_LOG_SIZE == 10 * 1024 * 1024
DESIRED_INTERVAL == 60                    \* configured interval, seconds
ClockCap == 60 * MaxMinutes               \* no probe starts after this instant
PingDurations == {30, 90}                 \* wall-clock seconds of one probe
\* bytes of an entry: a plain one, or one whose error text is very long
EntryLens == {ShortEntry, MAX_LOG_SIZE + 1}
\* size of a file left by an earlier run: exactly at, and one byte past, the threshold
OldSizes == {MAX_LOG_SIZE, MAX_LOG_SIZE + 1}

Writers == {"all", "fail"}   \* log_all (ALL_ATTEMPTS_LOG), log_fail (LOST_CONNECTION_LOG)
Gens == 0..MaxGen

Times == {10, 12}
AttemptLines == {Line("reply", t) : t \in Times}
                \cup {Line("reply_notime", 0), Line("timeout", 0), Line("other", 0)}

RECURSIVE SeqsUpTo(_, _)
\* the sequences over S of length at most n
SeqsUpTo(S, n) ==
    IF n = 0 THEN {<<>>}
    ELSE LET shorter == SeqsUpTo(S, n - 1)
         IN  shorter \cup {Append(q, x) : q \in shorter, x \in S}

Output(spawn, lines, counts, rtt, stderr) ==
    [spawn |-> spawn, lines |-> lines, counts |-> counts, rtt |-> rtt, stderr |-> stderr]

\* the probe outputs of ProbeSpec
ProbeOutputs ==
    {Output(FALSE, <<>>, <<>>, <<>>, "")}
    \cup {Output(TRUE, l, c, t, e) :
            l \in SeqsUpTo(AttemptLines, MaxAttempts),
            c \in {<<>>, <<2, 2, 0>>, <<2, 0, 2>>, <<2, 1, 1>>, <<0, 0, 0>>},
            t \in {<<>>, <<10, 12, 11>>},
            e \in {"", StderrPlain, StderrBracket}}

\* the probe outputs of the measurement loop: one of each shape of cycle
LoopOutputs ==
    { Output(FALSE, <<>>, <<>>, <<>>, ""),
      Output(TRUE, <<Line("reply", 10), Line("reply", 12)>>, <<2, 2, 0>>, <<10, 12, 11>>, ""),
      Output(TRUE, <<Line("timeout", 0)>>, <<2, 0, 2>>, <<>>, ""),
      Output(TRUE, <<Line("reply", 10)>>, <<>>, <<>>, ""),
      Output(TRUE, <<>>, <<>>, <<>>, StderrPlain),
      Output(TRUE, <<Line("reply_notime", 0)>>, <<2, 2, 0>>, <<>>, "") }

-----------------------------------------------------------------------------
\* NetworkuptimeMonitor.LogManager

\* a file: whether the name exists, and the entries it holds in write order.
\* An entry is [cycle, size]: the cycle that wrote it (0: content left by an
\* earlier run) and its length in bytes.
NoFile == [exists |-> FALSE, entries |-> <<>>]
EmptyFile == [exists |-> TRUE, entries |-> <<>>]
OldFile(tag, size) == [exists |-> TRUE, entries |-> <<[cycle |-> tag, size |-> size]>>]

RECURSIVE SizeOf(_)
SizeOf(entries) == IF entries = <<>> THEN 0 ELSE Head(entries).size + SizeOf(Tail(entries))

\* os.path.getsize(self.filename)
getsize(files) == SizeOf(files[0].entries)

\* LogManager._open_log, line 129: open(filename, "a") creates a missing file
open_log(files) ==
    IF files[0].exists THEN files ELSE [files EXCEPT ![0] = EmptyFile]

\* a rotation already at exactly the threshold
NeedsRotationAtLimit(files) == getsize(files) >= MAX_LOG_SIZE

\* line 136
NeedsRotation(files) == getsize(files) > MAX_LOG_SIZE

\* a rotation that keeps the previous backup as <filename>.2
check_rotation_chained(files) ==
    IF NeedsRotation(files)
    THEN open_log([files EXCEPT ![2] = files[1], ![1] = files[0], ![0] = NoFile])
    ELSE files

\* LogManager._check_rotation, lines 136-142, on the files of one writer
check_rotation(files) ==
    IF NeedsRotation(files)
    THEN LET removed == IF files[1].exists
                        THEN [files EXCEPT ![1] = NoFile] ELSE files
             renamed == [removed EXCEPT ![1] = removed[0], ![0] = NoFile]
         IN  open_log(renamed)
    ELSE files

\* a write that appends without looking at the size
write_unchecked(files, e) ==
    [files EXCEPT ![0].entries = Append(@, e)]

\* LogManager.write, lines 151-153
write(files, e) ==
    LET f == check_rotation(files)
    IN  [f EXCEPT ![0].entries = Append(@, e)]

-----------------------------------------------------------------------------
\* NetworkuptimeMonitor.main: the measurement loop

\* the positions inside the try block (lines 484-495)
Running == {"check", "ping", "log_all", "log_fail", "sleep"}

ProbeIdle == UNCHANGED probeVars
ReaderIdle == UNCHANGED readerVars

\* lines 480-481: LogManager(filename) opens the file for appending
OpenWriter(w, here, next) ==
    /\ pc = here
    /\ \/ /\ handle' = [handle EXCEPT ![w] = "open"]
          /\ fs' = [fs EXCEPT ![w] = open_log(@)]
          /\ pc' = next
          /\ exc' = exc
       \/ \* open() raises: the exception leaves main() before the try block
          /\ pc' = "done"
          /\ exc' = "error"
          /\ UNCHANGED <<handle, fs>>
    /\ UNCHANGED <<duration_minutes, clock, cycle, written, last_write, cycleVars>>
    /\ ProbeIdle /\ ReaderIdle

OpenAll == OpenWriter("all", "open_all", "open_fail")

OpenFail == OpenWriter("fail", "open_fail", "check")

\* a check that lets the loop run until the ceiling is exceeded
DurationExceeded ==
    /\ duration_minutes # None
    /\ clock > duration_minutes * 60

\* lines 486-490: the duration check at the top of the loop
DurationReached ==
    /\ duration_minutes # None
    /\ clock >= duration_minutes * 60

Check ==
    /\ pc = "check"
    /\ pc' = IF DurationReached THEN "close_all" ELSE "ping"
    /\ UNCHANGED <<duration_minutes, clock, fs, handle, cycle, written, last_write, exc, cycleVars>>
    /\ ProbeIdle /\ ReaderIdle

\* line 492: result = ping_test()
Ping ==
    /\ pc = "ping"
    /\ clock < ClockCap
    /\ \E out \in LoopOutputs, d \in PingDurations :
          /\ output' = out
          /\ result' = <<ping_test(out, COUNT, d)>>
          /\ error_log' = error_log + ErrorLogged(out)
          /\ start_time' = clock
          /\ clock' = clock + d
    /\ cycle' = cycle + 1
    /\ pc' = "log_all"
    /\ UNCHANGED <<duration_minutes, fs, handle, written, last_write, exc, COUNT, entry>>
    /\ UNCHANGED <<ppc, parsed>> /\ ReaderIdle

\* a LogManager.write(e) of writer w that returns
WriteEntry(w, e) ==
    /\ fs' = [fs EXCEPT ![w] = write(@, e)]
    /\ written' = [written EXCEPT ![w] = Append(@, e.cycle)]
    /\ last_write' = <<[writer |-> w, found |-> getsize(fs[w]),
                        rotated |-> NeedsRotation(fs[w])]>>

\* a LogManager.write that raises (OSError): the exception leaves the loop
WriteFails ==
    /\ pc' = "close_all"
    /\ exc' = "error"
    /\ UNCHANGED <<fs, written, last_write>>

\* log_status lines 441-454: format the entry, log_all.write(entry)
LogAll ==
    /\ pc = "log_all"
    /\ \E size \in EntryLens :
          LET e == [cycle |-> cycle, size |-> size,
                    text |-> FormatEntry(clock, result[1])]
          IN  /\ entry' = <<e>>
              /\ \/ /\ WriteEntry("all", [cycle |-> e.cycle, size |-> e.size])
                    /\ pc' = IF result[1].connected THEN "sleep" ELSE "log_fail"
                    /\ exc' = exc
                 \/ WriteFails
    /\ UNCHANGED <<duration_minutes, clock, handle, cycle, COUNT, result, error_log, start_time>>
    /\ ProbeIdle /\ ReaderIdle

\* log_status lines 456-457: if not result.connected: log_fail.write(entry)
LogFail ==
    /\ pc = "log_fail"
    /\ \/ /\ WriteEntry("fail", [cycle |-> entry[1].cycle, size |-> entry[1].size])
          /\ pc' = "sleep"
          /\ exc' = exc
       \/ WriteFails
    /\ UNCHANGED <<duration_minutes, clock, handle, cycle, cycleVars>>
    /\ ProbeIdle /\ ReaderIdle

\* lines 494-495: sleep for max(0, DESIRED_INTERVAL - result.test_duration)
SleepTime(r) ==
    IF DESIRED_INTERVAL - r.test_duration > 0
    THEN DESIRED_INTERVAL - r.test_duration ELSE 0

Sleep ==
    /\ pc = "sleep"
    /\ clock' = clock + SleepTime(result[1])
    /\ result' = <<>>
    /\ entry' = <<>>
    /\ pc' = "check"
    /\ UNCHANGED <<duration_minutes, fs, handle, cycle, written, last_write, exc, COUNT, error_log, start_time>>
    /\ ProbeIdle /\ ReaderIdle

\* KeyboardInterrupt: inside the try block it runs the finally clause, outside
\* of it (while the writers are being opened, or inside the finally clause) it
\* leaves main() at once
Interrupt ==
    /\ pc # "done"
    /\ pc' = IF pc \in Running THEN "close_all" ELSE "done"
    /\ exc' = "interrupt"
    /\ UNCHANGED <<duration_minutes, clock, fs, handle, cycle, written, last_write, cycleVars>>
    /\ ProbeIdle /\ ReaderIdle

\* lines 496-498 and LogManager.close: the finally clause
CloseWriter(w, here, next) ==
    /\ pc = here
    /\ handle' = [handle EXCEPT ![w] = IF @ = "open" THEN "closed" ELSE @]
    /\ \/ /\ pc' = next
          /\ exc' = exc
       \/ \* file.close() raises while flushing: the rest of the clause is skipped
          /\ handle[w] = "open"
          /\ pc' = "done"
          /\ exc' = "error"
    /\ UNCHANGED <<duration_minutes, clock, fs, cycle, written, last_write, cycleVars>>
    /\ ProbeIdle /\ ReaderIdle

CloseAll == CloseWriter("all", "close_all", "close_fail")

CloseFail == CloseWriter("fail", "close_fail", "done")

Files(active, backup) == [g \in Gens |-> IF g = 0 THEN active ELSE IF g = 1 THEN backup ELSE NoFile]

\* what an earlier run can have left under a writer's names
OldFiles ==
    {Files(NoFile, NoFile)}
    \cup {Files(OldFile(0, n), b) : n \in OldSizes, b \in {NoFile, OldFile(0 - 1, ShortEntry)}}

MonitorInit ==
    /\ pc = "open_all"
    /\ duration_minutes \in {None} \cup (1..MaxMinutes)
    /\ clock = 0
    /\ fs \in [Writers -> OldFiles]
    /\ handle = [w \in Writers |-> "unopened"]
    /\ COUNT \in 1..MaxCount
    /\ result = <<>>
    /\ entry = <<>>
    /\ error_log = 0
    /\ start_time = 0
    /\ cycle = 0
    /\ written = [w \in Writers |-> <<>>]
    /\ last_write = <<>>
    /\ exc = "none"

ProbeOff == ppc = "off" /\ output = <<>> /\ parsed = <<>>

ReaderOff ==
    /\ rpc = "off" /\ log_file = <<>>
    /\ timestamps = <<>> /\ packet_losses = <<>> /\ avg_pings = <<>>
    /\ jitters = <<>> /\ detailed_logs = <<>> /\ segments = <<>>
    /\ min_seg = 0 /\ prompt = <<>> /\ histograms = <<>>

Init == MonitorInit /\ ProbeOff /\ ReaderOff

Next ==
    \/ OpenAll \/ OpenFail \/ Check \/ Ping \/ LogAll \/ LogFail \/ Sleep
    \/ Interrupt \/ CloseAll \/ CloseFail

Spec == Init /\ [][Next]_vars

-----------------------------------------------------------------------------
\* One cycle end to end: ping_test, the entry log_status writes, parse_log

MonitorOff ==
    /\ pc = "off" /\ duration_minutes = None /\ clock = 0
    /\ fs = [w \in Writers |-> Files(NoFile, NoFile)]
    /\ handle = [w \in Writers |-> "unopened"]
    /\ cycle = 0 /\ written = [w \in Writers |-> <<>>]
    /\ last_write = <<>> /\ exc = "none"

MonitorIdle == UNCHANGED monitorVars

ProbeInit ==
    /\ ppc = "start"
    /\ output \in ProbeOutputs
    /\ COUNT \in 1..MaxCount
    /\ result = <<>> /\ entry = <<>> /\ parsed = <<>>
    /\ error_log = 0
    /\ start_time = 0

\* result = ping_test()
ProbePing ==
    /\ ppc = "start"
    /\ \E d \in PingDurations : result' = <<ping_test(output, COUNT, d)>>
    /\ error_log' = error_log + ErrorLogged(output)
    /\ start_time' = clock
    /\ ppc' = "tested"
    /\ UNCHANGED <<COUNT, entry, output, parsed>>
    /\ MonitorIdle /\ ReaderIdle

\* log_status(log_all, log_fail, result): the entry appended to the log
ProbeLog ==
    /\ ppc = "tested"
    /\ entry' = <<[cycle |-> 1, size |-> ShortEntry,
                   text |-> FormatEntry(result[1].test_duration, result[1])]>>
    /\ ppc' = "logged"
    /\ UNCHANGED <<COUNT, result, output, parsed, error_log, start_time>>
    /\ MonitorIdle /\ ReaderIdle

\* LogReader(log).parse_log() on a log holding that one entry
ProbeParse ==
    /\ ppc = "logged"
    /\ parsed' = ParseLines(<<entry[1].text>>)
    /\ ppc' = "parsed"
    /\ UNCHANGED <<COUNT, result, entry, output, error_log, start_time>>
    /\ MonitorIdle /\ ReaderIdle

-----------------------------------------------------------------------------
\* LogReader: parse_log, chunk_data, filter_segments, the Aggregator

MaxLines == 4          \* most lines in the log file
MaxMinSeg == 2         \* largest minimum segment length, minutes

GapLimit == 60         \* line 216: the gap that splits segments, seconds

\* seconds between the timestamps of two consecutive lines
Gaps == {30, GapLimit, GapLimit + 1}

\* the lines of the log: entries log_status wrote for three kinds of cycle
\* (all replies; one reply and one timeout; no reply)
ReaderOutputs ==
    { Output(TRUE, <<Line("reply", 10), Line("reply", 12)>>, <<2, 2, 0>>, <<10, 12, 11>>, ""),
      Output(TRUE, <<Line("reply", 10), Line("timeout", 0)>>, <<2, 1, 1>>, <<>>, ""),
      Output(TRUE, <<Line("timeout", 0)>>, <<2, 0, 2>>, <<>>, "") }

LogLines(ts) == {FormatEntry(ts, ping_test(o, 2, 30)) : o \in ReaderOutputs}

RECURSIVE LogFiles(_)
\* the log files of n lines, in chronological order, the first line at 0
LogFiles(n) ==
    IF n = 0 THEN {<<>>}
    ELSE IF n = 1 THEN {<<l>> : l \in LogLines(0)}
    ELSE UNION {{Append(f, l) : l \in UNION {LogLines(f[n - 1].timestamp + g) : g \in Gaps}}
                : f \in LogFiles(n - 1)}

\* lines that are not entries: an empty line, an entry cut off after its
\* packet counts, and an entry whose packet loss reads "1.2.3"
BlankLine ==
    [timestamp |-> 0, status |-> "", loss |-> None,
     sent |-> None, received |-> None, lost |-> None, stats |-> <<>>,
     jitter |-> None, duration |-> None, tokens |-> <<>>, error |-> ""]

CutLine(line) ==
    [line EXCEPT !.stats = <<>>, !.jitter = None, !.duration = None, !.tokens = <<>>]

BadValueLine(line) == [line EXCEPT !.loss = BadFloat]

MalformedLines ==
    LET line == FormatEntry(0, ping_test(Output(TRUE, <<Line("reply", 10), Line("reply", 12)>>,
                                                <<2, 2, 0>>, <<10, 12, 11>>, ""), 2, 30))
    IN  {BlankLine, CutLine(line), BadValueLine(line)}

\* the files f with one line that is not an entry put in at any position
WithMalformedLine(f) ==
    {SubSeq(f, 1, i) \o <<l>> \o SubSeq(f, i + 1, Len(f)) :
        i \in 0..Len(f), l \in MalformedLines}

\* the log files with such lines: one in a file of up to MaxLines - 2
\* entries, two in a file of up to MaxLines - 3
DamagedLogFiles ==
    LET one(k) == UNION {WithMalformedLine(f) : f \in UNION {LogFiles(n) : n \in 0..k}}
    IN  one(MaxLines - 2)
        \cup UNION {WithMalformedLine(f) : f \in one(MaxLines - 3)}

Column(records, field) == [i \in 1..Len(records) |-> records[i][field]]

\* a[lo:hi] of Python for 0 <= lo <= hi <= len(a)
Slice(a, lo, hi) == SubSeq(a, lo + 1, hi)

\* lines 217-223 and 227-233: the segment of the records start_idx .. i - 1
Segment(ts, pl, ap, ji, dl, start_idx, i) ==
    [timestamps |-> Slice(ts, start_idx, i),
     packet_losses |-> Slice(pl, start_idx, i),
     avg_pings |-> Slice(ap, start_idx, i),
     jitters |-> Slice(ji, start_idx, i),
     detailed_logs |-> Slice(dl, start_idx, i)]

\* a split already at a gap of exactly the limit
GapExceededAtLimit(gap) == gap >= GapLimit

\* line 216
GapExceeded(gap) == gap > GapLimit

RECURSIVE ChunkLoop(_, _, _, _, _, _, _, _)
\* lines 214-234: the loop from index i on (0-based, as in the code), then
\* the final segment
ChunkLoop(ts, pl, ap, ji, dl, i, start_idx, segs) ==
    IF i >= Len(ts)
    THEN Append(segs, Segment(ts, pl, ap, ji, dl, start_idx, Len(ts)))
    ELSE IF GapExceeded(ts[i + 1] - ts[i])
         THEN ChunkLoop(ts, pl, ap, ji, dl, i + 1, i,
                        Append(segs, Segment(ts, pl, ap, ji, dl, start_idx, i)))
         ELSE ChunkLoop(ts, pl, ap, ji, dl, i + 1, start_idx, segs)

\* LogReader.chunk_data, lines 209-236
chunk_data(ts, pl, ap, ji, dl) ==
    IF ts = <<>> THEN <<>>
    ELSE ChunkLoop(ts, pl, ap, ji, dl, 1, 0, <<>>)

\* the threshold left in minutes
ThresholdNotConverted(min_duration_minutes) == min_duration_minutes

\* line 253
ThresholdSecs(min_duration_minutes) == min_duration_minutes * 60

\* lines 255-260: the segment is appended to new_segments
Retained(seg, min_duration_minutes) ==
    /\ ~(Len(seg.timestamps) < 2)
    /\ seg.timestamps[Len(seg.timestamps)] - seg.timestamps[1]
          >= ThresholdSecs(min_duration_minutes)

RECURSIVE FilterLoop(_, _)
FilterLoop(segs, min_duration_minutes) ==
    IF segs = <<>> THEN <<>>
    ELSE IF Retained(Head(segs), min_duration_minutes)
         THEN <<Head(segs)>> \o FilterLoop(Tail(segs), min_duration_minutes)
         ELSE FilterLoop(Tail(segs), min_duration_minutes)

\* the filter without the early return of line 249-250
filter_segments_always(segs, min_duration_minutes) ==
    FilterLoop(segs, min_duration_minutes)

\* LogReader.filter_segments, lines 249-262
filter_segments(segs, min_duration_minutes) ==
    IF min_duration_minutes <= 0 THEN segs
    ELSE FilterLoop(segs, min_duration_minutes)

\* sum(xs) / len(xs) if xs else 0, as the fraction num/den
Mean(xs) ==
    IF xs # <<>> THEN [num |-> SumSeq(xs), den |-> Len(xs)]
    ELSE [num |-> 0, den |-> 1]

\* the number of None in the ping_results of the records
TimeoutCount(records) ==
    LET all == Flatten(Column(records, "ping_results"))
    IN  Len(all) - Len(FilterSeq(all, None))

\* LogReader.generate_prompt, lines 471-476: the summary numbers
generate_prompt(dl, segs, ap, ji, pl) ==
    [total_entries |-> Len(dl),
     num_segments |-> Len(segs),
     avg_ping_value |-> Mean(ap),
     avg_jitter_value |-> Mean(ji),
     avg_packet_loss_value |-> Mean(pl),
     timeout_count_prompt |-> TimeoutCount(dl)]

\* LogReader.plot_histograms, lines 356-369: the collected distributions
plot_histograms(dl) ==
    [all_ping_values |-> FilterSeq(Flatten(Column(dl, "ping_results")), None),
     all_jitter_values |-> Column(dl, "jitter"),
     all_packet_loss_values |-> Column(dl, "packet_loss"),
     timeout_count |-> TimeoutCount(dl)]

ReaderInit ==
    /\ rpc = "init"
    /\ log_file \in UNION {LogFiles(n) : n \in 0..MaxLines} \cup DamagedLogFiles
    /\ timestamps = <<>> /\ packet_losses = <<>> /\ avg_pings = <<>>
    /\ jitters = <<>> /\ detailed_logs = <<>> /\ segments = <<>>
    /\ min_seg = 0 /\ prompt = <<>> /\ histograms = <<>>

CycleOff ==
    COUNT = 1 /\ result = <<>> /\ entry = <<>> /\ error_log = 0 /\ start_time = 0

CycleIdle == UNCHANGED cycleVars

\* LogReader.__init__, lines 95-102: the containers, then parse_log()
ParseLog ==
    /\ rpc = "init"
    /\ LET records == ParseLines(log_file)
       IN  /\ detailed_logs' = records
           /\ timestamps' = Column(records, "timestamp")
           /\ packet_losses' = Column(records, "packet_loss")
           /\ avg_pings' = Column(records, "avg")
           /\ jitters' = Column(records, "jitter")
    /\ rpc' = "parsed"
    /\ UNCHANGED <<log_file, segments, min_seg, prompt, histograms>>
    /\ MonitorIdle /\ CycleIdle /\ ProbeIdle

\* run_all line 557: self.chunk_data()
ChunkData ==
    /\ rpc = "parsed"
    /\ segments' = chunk_data(timestamps, packet_losses, avg_pings, jitters, detailed_logs)
    /\ rpc' = "chunked"
    /\ UNCHANGED <<log_file, timestamps, packet_losses, avg_pings, jitters,
                   detailed_logs, min_seg, prompt, histograms>>
    /\ MonitorIdle /\ CycleIdle /\ ProbeIdle

\* run_all lines 565-571: the operator's minimum length, self.filter_segments(min_seg)
FilterSegments ==
    /\ rpc = "chunked"
    /\ \E m \in 0..MaxMinSeg :
          /\ min_seg' = m
          /\ segments' = filter_segments(segments, m)
    /\ rpc' = "filtered"
    /\ UNCHANGED <<log_file, timestamps, packet_losses, avg_pings, jitters,
                   detailed_logs, prompt, histograms>>
    /\ MonitorIdle /\ CycleIdle /\ ProbeIdle

\* run_all line 581: self.plot_histograms()
PlotHistograms ==
    /\ rpc = "filtered"
    /\ histograms' = <<plot_histograms(detailed_logs)>>
    /\ rpc' = "plotted"
    /\ UNCHANGED <<log_file, timestamps, packet_losses, avg_pings, jitters,
                   detailed_logs, segments, min_seg, prompt>>
    /\ MonitorIdle /\ CycleIdle /\ ProbeIdle

\* run_all line 587: self.generate_prompt()
GeneratePrompt ==
    /\ rpc = "plotted"
    /\ prompt' = <<generate_prompt(detailed_logs, segments, avg_pings, jitters, packet_losses)>>
    /\ rpc' = "done"
    /\ UNCHANGED <<log_file, timestamps, packet_losses, avg_pings, jitters,
                   detailed_logs, segments, min_seg, histograms>>
    /\ MonitorIdle /\ CycleIdle /\ ProbeIdle

ReaderNext == ParseLog \/ ChunkData \/ FilterSegments \/ PlotHistograms \/ GeneratePrompt

ReaderStart == MonitorOff /\ CycleOff /\ ProbeOff /\ ReaderInit

ReaderSpec == ReaderStart /\ [][ReaderNext]_vars

-----------------------------------------------------------------------------
\* One cycle end to end: ping_test, log_status, parse_log, generate_prompt

\* LogReader.generate_prompt() on the records of that one entry
ProbeAggregate ==
    /\ ppc = "parsed"
    /\ prompt' = <<generate_prompt(parsed, segments, Column(parsed, "avg"),
                                   Column(parsed, "jitter"), Column(parsed, "packet_loss"))>>
    /\ ppc' = "aggregated"
    /\ UNCHANGED <<COUNT, result, entry, output, parsed, error_log, start_time>>
    /\ UNCHANGED <<rpc, log_file, timestamps, packet_losses, avg_pings, jitters,
                   detailed_logs, segments, min_seg, histograms>>
    /\ MonitorIdle

ProbeNext == ProbePing \/ ProbeLog \/ ProbeParse \/ ProbeAggregate

ProbeStart == MonitorOff /\ ProbeInit /\ ReaderOff

ProbeSpec == ProbeStart /\ [][ProbeNext]_vars

-----------------------------------------------------------------------------
\* Properties of the Log Analysis Engine (ReaderSpec, ProbeSpec)

Last(q) == q[Len(q)]

\* the segments chunk_data produced for the parsed records
Chunked == chunk_data(timestamps, packet_losses, avg_pings, jitters, detailed_logs)

RECURSIVE IsSubseq(_, _)
\* a can be obtained from b by dropping elements
IsSubseq(a, b) ==
    IF a = <<>> THEN TRUE
    ELSE IF b = <<>> THEN FALSE
    ELSE IF Head(a) = Head(b) THEN IsSubseq(Tail(a), Tail(b))
    ELSE IsSubseq(a, Tail(b))

\* C1: after chunk_data no segment is empty, adjacent records of a segment
\* are at most 60 seconds apart, the last record of a segment and the first
\* of the next are more than 60 seconds apart, and the segments concatenated
\* in order are the parsed records (every parallel list of them).
ChunkDataSegments ==
    rpc = "chunked" =>
        /\ \A k \in 1..Len(segments) :
              LET ts == segments[k].timestamps
              IN  /\ Len(ts) >= 1
                  /\ \A j \in 1..(Len(ts) - 1) : ts[j + 1] - ts[j] <= 60
                  /\ ts = Column(segments[k].detailed_logs, "timestamp")
        /\ \A k \in 1..(Len(segments) - 1) :
              segments[k + 1].timestamps[1] - Last(segments[k].timestamps) > 60
        /\ Flatten(Column(segments, "timestamps")) = timestamps
        /\ Flatten(Column(segments, "detailed_logs")) = detailed_logs
        /\ Flatten(Column(segments, "packet_losses")) = packet_losses
        /\ Flatten(Column(segments, "avg_pings")) = avg_pings
        /\ Flatten(Column(segments, "jitters")) = jitters

\* C1 witness: a log split into several segments, one of them of several
\* records that are exactly 60 seconds apart
ChunkDataSplits ==
    /\ rpc = "chunked"
    /\ Len(segments) >= 2
    /\ \E k \in 1..Len(segments) :
          /\ Len(segments[k].timestamps) >= 2
          /\ segments[k].timestamps[2] - segments[k].timestamps[1] = 60

\* the record parse_log should give back for the PingResult r logged at ts
ExpectedRecord(ts, r) ==
    [timestamp |-> ts,
     packet_loss |-> RoundTenths(r.loss_percent.num, r.loss_percent.den),
     sent |-> r.sent, received |-> r.received, lost |-> r.lost,
     min |-> r.min_time, max |-> r.max_time, avg |-> r.avg_time,
     jitter |-> RoundTenths(r.jitter.num, r.jitter.den),
     duration |-> r.test_duration * 10000,
     ping_results |-> r.ping_results]

\* C2: the entry log_status writes for any PingResult, parsed by parse_log,
\* gives exactly one record, equal to the PingResult on every field of the
\* format (min/max/avg absent when the clause is not written).
RoundTrip ==
    ppc = "parsed" =>
        parsed = <<ExpectedRecord(entry[1].text.timestamp, result[1])>>

\* C3 as stated: for every threshold, 0 included, every retained segment has
\* at least two records and a span of at least threshold * 60 seconds.
RetainedAreLong ==
    rpc = "filtered" =>
        \A k \in 1..Len(segments) :
            LET ts == segments[k].timestamps
            IN  /\ Len(ts) >= 2
                /\ Last(ts) - ts[1] >= min_seg * 60

\* C3 amended: for every threshold above 0 every retained segment has at
\* least two records and a span of at least threshold * 60 seconds; with
\* threshold 0 every segment is retained, single-record segments included.
RetainedAreLongAboveZero ==
    rpc = "filtered" =>
        /\ min_seg > 0 =>
              \A k \in 1..Len(segments) :
                  LET ts == segments[k].timestamps
                  IN  /\ Len(ts) >= 2
                      /\ Last(ts) - ts[1] >= min_seg * 60
        /\ min_seg = 0 => Len(segments) = Len(Chunked)

\* C3 witness: under a positive threshold one segment of several records is
\* retained and another segment of several records is dropped
FilterDropsShortSpan ==
    /\ rpc = "filtered"
    /\ min_seg > 0
    /\ segments # <<>>
    /\ \E k \in 1..Len(Chunked) :
          /\ Len(Chunked[k].timestamps) >= 2
          /\ Chunked[k] \notin Range(segments)

\* C4: filter_segments returns a subsequence of the segments it was given,
\* each retained segment unchanged, and with threshold 0 the list unchanged.
FilterOnlyDrops ==
    [][(rpc = "chunked" /\ rpc' = "filtered") =>
          /\ IsSubseq(segments', segments)
          /\ (min_seg' = 0 => segments' = segments)]_vars

\* C4 witness: the filter dropped the first segment and retained a later one
FilterKeepsLaterSegment ==
    /\ rpc = "filtered"
    /\ segments # <<>>
    /\ Len(Chunked) >= 2
    /\ Chunked[1] \notin Range(segments)

\* C5: the summary numbers and the histogram distributions computed after
\* chunk_data and filter_segments are those of the records of the retained
\* segments.
SameMean(a, b) == a.num * b.den = b.num * a.den

AggregatesOverRetained ==
    rpc = "done" =>
        LET recs == Flatten(Column(segments, "detailed_logs"))
        IN  /\ prompt[1].total_entries = Len(recs)
            /\ SameMean(prompt[1].avg_ping_value, Mean(Column(recs, "avg")))
            /\ SameMean(prompt[1].avg_jitter_value, Mean(Column(recs, "jitter")))
            /\ SameMean(prompt[1].avg_packet_loss_value, Mean(Column(recs, "packet_loss")))
            /\ prompt[1].timeout_count_prompt = TimeoutCount(recs)
            /\ histograms[1] = plot_histograms(recs)

-----------------------------------------------------------------------------
\* The measurement loop under fair scheduling: main() is a sequential
\* program, so whenever it has a next step it takes one.  The files play no
\* part in the control flow; FairSpec starts from new log files.

FairInit ==
    /\ Init
    /\ fs = [w \in Writers |-> Files(NoFile, NoFile)]
    /\ COUNT = 1

FairSpec == FairInit /\ [][Next]_vars /\ WF_vars(Next)

-----------------------------------------------------------------------------
\* Properties of the Measurement Engine (Spec, FairSpec)

\* the step is a LogManager.write of writer w that returned
Wrote(w) == written'[w] # written[w]

\* the entry that step appended
Appended == [cycle |-> cycle, size |-> entry'[1].size]

RECURSIVE CountOf(_, _)
CountOf(q, x) ==
    IF q = <<>> THEN 0
    ELSE (IF Head(q) = x THEN 1 ELSE 0) + CountOf(Tail(q), x)

\* C6: a write that finds the file at exactly 10 MiB (or below) does not
\* rotate: the entry is appended to the active file and the backup is left
\* alone; a write that finds it at least one byte larger rotates first: the
\* previous backup is gone, the backup is the former active file, and the
\* entry is the only content of the fresh active file.
RotationPastThreshold ==
    [][\A w \in Writers :
          Wrote(w) =>
             IF SizeOf(fs[w][0].entries) <= 10 * 1024 * 1024
             THEN /\ fs'[w][0].entries = Append(fs[w][0].entries, Appended)
                  /\ fs'[w][1] = fs[w][1]
             ELSE /\ fs'[w][0].entries = <<Appended>>
                  /\ fs'[w][1] = fs[w][0]
                  /\ Appended \notin Range(fs'[w][1].entries)]_vars

\* C6 witness: the failure writer has just written to a file of exactly
\* 10 MiB without rotating, after the all-attempts writer rotated a file of
\* one byte more
RotatedOneNotOther ==
    /\ last_write # <<>>
    /\ last_write[1].writer = "fail"
    /\ last_write[1].found = 10 * 1024 * 1024
    /\ ~last_write[1].rotated
    /\ Len(fs["fail"][0].entries) = 2
    /\ fs["all"][1].exists
    /\ SizeOf(fs["all"][1].entries) = 10 * 1024 * 1024 + 1
    /\ Len(fs["all"][0].entries) = 1

\* C7: no backup name other than <filename>.1 ever exists; a write that
\* rotates leaves in the backup exactly the entries the active file held and
\* in the active file only the entry written; a write that does not rotate
\* appends to the active file, so that it holds the entries written since
\* the rotation in write order.
OneBackupGeneration ==
    /\ [](\A w \in Writers : \A g \in 2..MaxGen : ~fs[w][g].exists)
    /\ [][\A w \in Writers :
             Wrote(w) =>
                IF last_write'[1].rotated
                THEN /\ fs'[w][1].exists
                     /\ fs'[w][1].entries = fs[w][0].entries
                     /\ \A x \in Range(fs[w][1].entries) :
                           x \notin Range(fs'[w][0].entries) \cup Range(fs'[w][1].entries)
                     /\ Len(fs'[w][0].entries) = 1
                     /\ fs'[w][0].entries[1].cycle = cycle
                ELSE /\ Len(fs'[w][0].entries) = Len(fs[w][0].entries) + 1
                     /\ SubSeq(fs'[w][0].entries, 1, Len(fs[w][0].entries)) = fs[w][0].entries
                     /\ Last(fs'[w][0].entries).cycle = cycle]_vars

\* C7 witness: the all-attempts writer rotated twice: the backup holds the
\* entry of the first cycle, which was alone in the active file, and the
\* active file holds the entry of the second cycle
RotatedTwice ==
    /\ last_write # <<>>
    /\ last_write[1].writer = "all"
    /\ last_write[1].rotated
    /\ Len(fs["all"][1].entries) = 1
    /\ fs["all"][1].entries[1].cycle = 1
    /\ Len(fs["all"][0].entries) = 1
    /\ fs["all"][0].entries[1].cycle = 2

\* C8: connected is true exactly when received > 0; when log_status has
\* finished (the loop is about to sleep) the cycle's entry was written once
\* by the all-attempts writer, and once by the failure writer if the cycle
\* is not connected and not at all otherwise; a step that changes the files
\* of one writer leaves the files of the other as they were.
LogRouting ==
    /\ [](/\ result # <<>> => (result[1].connected <=> result[1].received > 0)
          /\ pc = "sleep" =>
                /\ CountOf(written["all"], cycle) = 1
                /\ CountOf(written["fail"], cycle) = IF result[1].connected THEN 0 ELSE 1
          /\ \A c \in 1..cycle : /\ CountOf(written["all"], c) <= 1
                                 /\ CountOf(written["fail"], c) <= CountOf(written["all"], c))
    /\ [][\A w \in Writers :
             fs'[w] # fs[w] => \A v \in Writers \ {w} : fs'[v] = fs[v]]_vars

\* C8 witness: a connected first cycle was written to the all-attempts log
\* only; the second cycle is not connected, and the failure writer has just
\* rotated its file to write it
SecondCycleToBothLogs ==
    /\ pc = "sleep"
    /\ cycle = 2
    /\ ~result[1].connected
    /\ written["all"] = <<1, 2>>
    /\ written["fail"] = <<2>>
    /\ last_write[1].writer = "fail"
    /\ last_write[1].rotated

OpenedWritersClosed ==
    pc = "done" => \A w \in Writers : handle[w] # "open"

\* the probe process of the cycle in progress could not be started
SpawnFailed == result # <<>> /\ ~output.spawn

Malformed(line) == line.status = "" \/ line.jitter = None \/ line.loss = BadFloat

RECURSIVE WithoutMalformed(_)
WithoutMalformed(lines) ==
    IF lines = <<>> THEN <<>>
    ELSE IF Malformed(Head(lines)) THEN WithoutMalformed(Tail(lines))
         ELSE <<Head(lines)>> \o WithoutMalformed(Tail(lines))

-----------------------------------------------------------------------------
\* Properties of ping_test (ProbeSpec)

\* the probe ran (subprocess.run returned) and its result is there
Completed == ppc # "start" /\ output.spawn

CountsNonNegative ==
    ppc # "start" =>
        /\ result[1].sent >= 0
        /\ result[1].received >= 0
        /\ result[1].lost >= 0
        /\ result[1].loss_percent.num >= 0
        /\ result[1].loss_percent.num <= 100 * result[1].loss_percent.den

RECURSIVE ReplyTimes(_)
\* the round-trip times of the reply lines, in order
ReplyTimes(lines) ==
    IF lines = <<>> THEN <<>>
    ELSE IF Head(lines).kind = "reply"
         THEN <<Head(lines).time>> \o ReplyTimes(Tail(lines))
         ELSE ReplyTimes(Tail(lines))

\* C15: the jitter of a result is the sum of the absolute differences of
\* consecutive received round-trip times divided by their number, the lines
\* without a time left out; it is at least 0, and it is 0 when fewer than
\* two times were received (a probe that could not be run included).
JitterIsMeanAbsDiff ==
    ppc # "start" =>
        LET v == IF output.spawn THEN ReplyTimes(output.lines) ELSE <<>>
            n == Len(v)
            j == result[1].jitter
        IN  /\ j.den > 0 /\ j.num >= 0
            /\ n < 2 => j.num = 0
            /\ n >= 2 =>
                  j.num * (n - 1) =
                     j.den * SumSeq([i \in 1..(n - 1) |-> Abs(v[i + 1] - v[i])])

\* C15 witness: replies of 10 and 12 ms with a timeout between them, and a
\* jitter of 2 ms
JitterAcrossTimeout ==
    /\ ppc = "tested"
    /\ result[1].ping_results = <<10, None, 12>>
    /\ result[1].jitter.num = 2 * result[1].jitter.den

\* min_time, max_time and avg_time are all absent, and the entry, once
\* formatted, has no Min/Max/Avg clause
NoStats ==
    /\ result[1].min_time = None
    /\ result[1].max_time = None
    /\ result[1].avg_time = None
    /\ entry # <<>> => entry[1].text.stats = <<>>

RECURSIVE TimeoutTokens(_)
\* the number of attempts written as "timeout" in a list of tokens
TimeoutTokens(tokens) ==
    IF tokens = <<>> THEN 0
    ELSE (IF Head(tokens) = TimeoutTok THEN 1 ELSE 0) + TimeoutTokens(Tail(tokens))

\* C17: the record of a parsed line has one ping result for each attempt
\* of the line's list, in order, the number for a number and None for
\* "timeout"; and the timeout count of the Aggregator is the number of
\* attempts the parsed lines record as timeouts (none for an empty list).
OneResultPerAttempt ==
    /\ (ppc \in {"parsed", "aggregated"} /\ parsed # <<>>) =>
          LET tokens == entry[1].text.tokens
          IN  parsed[1].ping_results =
                 [i \in 1..Len(tokens) |->
                     IF tokens[i] = TimeoutTok THEN None ELSE tokens[i]]
    /\ ppc = "aggregated" =>
          prompt[1].timeout_count_prompt =
             IF parsed # <<>> THEN TimeoutTokens(entry[1].text.tokens) ELSE 0

-----------------------------------------------------------------------------
\* Properties of log_status (Spec)

\* C18: every entry log_status formats has exactly one newline, the one
\* that ends it, whatever the error text of the result.
OneNewlinePerEntry ==
    entry # <<>> => EntryNewlines(entry[1].text) = 1

-----------------------------------------------------------------------------
\* The two tiers of ping_test (ProbeSpec)

\* C19: with a summary line, sent, received and lost are the numbers of
\* that line whatever the attempt lines are; without one, sent is COUNT,
\* received the number of attempts with a round-trip time, and lost is
\* sent - received.  ping_results has one element for each reply and each
\* timeout line in both cases.
TwoTierCounts ==
    Completed =>
        LET r == result[1]
        IN  /\ output.counts # <<>> =>
                  /\ r.sent = output.counts[1]
                  /\ r.received = output.counts[2]
                  /\ r.lost = output.counts[3]
            /\ output.counts = <<>> =>
                  /\ r.sent = COUNT
                  /\ r.received = Len(ReplyTimes(output.lines))
                  /\ r.lost = r.sent - r.received
            /\ Len(r.ping_results) =
                  Cardinality({i \in 1..Len(output.lines) : output.lines[i].kind # "other"})

\* C19 witness: the summary says 2 sent and 2 lost, next to three attempt
\* lines, all of them replies with a time
SummaryNotReconciled ==
    /\ ppc = "tested"
    /\ output.spawn
    /\ output.counts = <<2, 0, 2>>
    /\ result[1].ping_results = <<10, 12, 10>>
    /\ result[1].sent = 2 /\ result[1].received = 0 /\ result[1].lost = 2

\* C20: with a statistics line, min/max/avg are its numbers; without one
\* and with at least one round-trip time, min and max are the least and the
\* greatest of the times and avg is their sum divided by their number,
\* rounded down, so min <= avg <= max; without either, all three are None.
TwoTierRttStats ==
    Completed =>
        LET r == result[1]
            v == ReplyTimes(output.lines)
            n == Len(v)
        IN  /\ output.rtt # <<>> =>
                  <<r.min_time, r.max_time, r.avg_time>> = output.rtt
            /\ (output.rtt = <<>> /\ n > 0) =>
                  /\ \E i \in 1..n : r.min_time = v[i]
                  /\ \E i \in 1..n : r.max_time = v[i]
                  /\ \A i \in 1..n : r.min_time <= v[i] /\ v[i] <= r.max_time
                  /\ r.avg_time * n <= SumSeq(v)
                  /\ SumSeq(v) < (r.avg_time + 1) * n
                  /\ r.min_time <= r.avg_time /\ r.avg_time <= r.max_time
            /\ (output.rtt = <<>> /\ n = 0) =>
                  /\ r.min_time = None /\ r.max_time = None /\ r.avg_time = None

\* C20 witness: no statistics line, times of 10, 10 and 12 ms: 32 / 3 is
\* rounded down to 10
AverageRoundedDown ==
    /\ ppc = "tested"
    /\ output.spawn
    /\ output.rtt = <<>>
    /\ result[1].ping_results = <<10, 10, 12>>
    /\ result[1].min_time = 10 /\ result[1].max_time = 12 /\ result[1].avg_time = 10

-----------------------------------------------------------------------------
\* The timestamp of an entry (Spec)

\* C21: the timestamp of the entry of a cycle is the instant at which the
\* probe of that cycle was started.
TimestampIsCycleStart ==
    entry # <<>> => entry[1].text.timestamp = start_time

-----------------------------------------------------------------------------
\* The size of the active file (Spec)

\* the content the active file of w holds was all written by this run, or
\* what an earlier run left of it is no larger than the threshold
WithinThresholdAtStart(w) ==
    \A i \in 1..Len(fs[w][0].entries) :
        fs[w][0].entries[i].cycle = 0 => fs[w][0].entries[i].size <= 10 * 1024 * 1024

\* C22: for a file that was no larger than 10 MiB when the run found it,
\* the active file is never larger than 10 MiB plus the length of the last
\* entry written to it.  A write rotates exactly when it finds the file
\* above 10 MiB, and then the entry written just before it is the one that
\* took the file above: without that entry the file was within 10 MiB.
SizeBoundUnderRotation ==
    /\ [](\A w \in Writers :
            LET es == fs[w][0].entries
            IN  WithinThresholdAtStart(w) =>
                  /\ SizeOf(es) <= 10 * 1024 * 1024 + (IF es # <<>> /\ Last(es).cycle > 0
                                                       THEN Last(es).size ELSE 0)
                  /\ SizeOf(es) > 10 * 1024 * 1024 =>
                        /\ Last(es).cycle > 0
                        /\ SizeOf(es) - Last(es).size <= 10 * 1024 * 1024)
    /\ [][\A w \in Writers :
             (Wrote(w) /\ WithinThresholdAtStart(w)) =>
                LET es == fs[w][0].entries
                    rotated == fs'[w][1] = fs[w][0] /\ fs'[w][0].entries = <<Appended>>
                IN  /\ rotated <=> SizeOf(es) > 10 * 1024 * 1024
                    /\ ~rotated => fs'[w][0].entries = Append(es, Appended)
                    /\ SizeOf(fs'[w][0].entries) <= 10 * 1024 * 1024 + Appended.size]_vars

\* C22 witness: the all-attempts log was found at exactly 10 MiB, the entry
\* of the first cycle took it above, and the write of the second cycle has
\* rotated it
RotatedAtFirstWriteAbove ==
    /\ cycle = 2
    /\ Len(fs["all"][1].entries) = 2
    /\ fs["all"][1].entries[1] = [cycle |-> 0, size |-> 10 * 1024 * 1024]
    /\ fs["all"][1].entries[2] = [cycle |-> 1, size |-> ShortEntry]
    /\ Len(fs["all"][0].entries) = 1
    /\ fs["all"][0].entries[1].cycle = 2

====
